---- MODULE Spec2Model ----
(***************************************************************************)
(* insight-vault (RTL SnapSolve): the row-level policies of the store, the *)
(* registration / approval handlers of the pages, and the reset-password   *)
(* edge function, as state machines over the tables of the store.          *)
(***************************************************************************)
EXTENDS Naturals, FiniteSets, Sequences, TLC

\* ------------------------------------------------------------------ bounds
MaxRows == 1       \* content rows ever inserted
MaxCodes == 1      \* login_codes rows ever inserted
MaxProfiles == 3   \* profiles rows ever inserted
MaxConvs == 1      \* ai_conversations rows ever inserted
MaxMsgs == 2       \* ai_messages rows ever inserted

\* ------------------------------------------------------------ value domains
NULL == "NULL"                      \* SQL NULL; auth.uid() of an anonymous caller
Admin0 == "a1"                      \* the identity bootstrapped with the admin role
Identities == {"a1", "u1", "u2"}    \* auth.users ids that can ever exist
Callers == Identities \cup {NULL}
Registrants == Identities \ {Admin0}   \* identities that register through the app
Statuses == {"pending", "approved", "rejected"}
Roles == {"admin", "user"}
Titles == {"t1", "t2"}
EmailOf(u) == "mail_" \o u          \* the address identity u signs up with

VARIABLES
  authUsers,    \* auth.users: the registered identities
  profiles,     \* public.profiles: [id, user_id, email, status]
  user_roles,   \* public.user_roles: [user_id, role]
  login_codes,  \* public.login_codes: [id, user_id, code, used, origin]
  content,      \* solutions, installation_guides, upgrades: [id, tbl, user_id, title]
  password,     \* the stored credential of each identity
  reqs,         \* the reset-password requests in flight
  seq,          \* rows ever inserted, per table kind (ids are never reused)
  last,         \* the operation that acted last, with the facts it saw
  listing,      \* the profiles each open admin page last fetched (users / profiles state)
  ai_conversations,  \* public.ai_conversations: [id, user_id, title, created_at, updated_at]
  ai_messages,  \* public.ai_messages: [id, conversation_id, role, content, relevant_solutions]
  search,       \* the ai-search request being served: its inputs and its response
  panel         \* the AI panel open in a browser: what it shows and where its query is

aiTables == <<ai_conversations, ai_messages>>
vars == <<authUsers, profiles, user_roles, login_codes, content, password, reqs, seq, last,
          listing, ai_conversations, ai_messages, search, panel>>

\* ------------------------------------------------------------- SQL helpers
\* `a = b` in SQL: NULL on either side is not true.
SqlEq(a, b) == a # NULL /\ b # NULL /\ a = b

\* public.has_role(_user_id, _role)
has_role(_user_id, _role) ==
  \E r \in user_roles : SqlEq(r.user_id, _user_id) /\ r.role = _role

\* public.is_approved(_user_id)
\* is_approved with the status filter dropped
is_approved_any_status(_user_id) ==
  \E p \in profiles : SqlEq(p.user_id, _user_id)
is_approved(_user_id) ==
  \E p \in profiles : SqlEq(p.user_id, _user_id) /\ p.status = "approved"

\* ------------------------------------------------- policies, content tables
\* FOR INSERT WITH CHECK (...) of each content table.
solutions_insert_check(uid, row) == is_approved(uid) \/ has_role(uid, "admin")
installation_guides_insert_check(uid, row) == is_approved(uid) \/ has_role(uid, "admin")
upgrades_insert_check(uid, row) == is_approved(uid) \/ has_role(uid, "admin")

\* FOR UPDATE USING (...) of each content table.
\* the first migration's "Anyone can update solutions" policy, as if never dropped
solutions_update_using_anyone(uid, row) == TRUE
solutions_update_using(uid, row) == SqlEq(row.user_id, uid) \/ has_role(uid, "admin")
installation_guides_update_using(uid, row) == SqlEq(row.user_id, uid) \/ has_role(uid, "admin")
upgrades_update_using(uid, row) == SqlEq(row.user_id, uid) \/ has_role(uid, "admin")

\* FOR DELETE USING (...) of each content table.
solutions_delete_using(uid, row) == SqlEq(row.user_id, uid) \/ has_role(uid, "admin")
installation_guides_delete_using(uid, row) == SqlEq(row.user_id, uid) \/ has_role(uid, "admin")
upgrades_delete_using(uid, row) == SqlEq(row.user_id, uid) \/ has_role(uid, "admin")

\* FOR SELECT USING (true) of each content table.
\* a select policy for signed-in callers only
solutions_select_using_authenticated(uid, row) == uid # NULL
solutions_select_using(uid, row) == TRUE
installation_guides_select_using(uid, row) == TRUE
upgrades_select_using(uid, row) == TRUE

SelectUsing(uid, row) ==
  CASE row.tbl = "solutions" -> solutions_select_using(uid, row)
    [] row.tbl = "installation_guides" -> installation_guides_select_using(uid, row)
    [] row.tbl = "upgrades" -> upgrades_select_using(uid, row)

InsertCheck(uid, row) ==
  CASE row.tbl = "solutions" -> solutions_insert_check(uid, row)
    [] row.tbl = "installation_guides" -> installation_guides_insert_check(uid, row)
    [] row.tbl = "upgrades" -> upgrades_insert_check(uid, row)

UpdateUsing(uid, row) ==
  CASE row.tbl = "solutions" -> solutions_update_using(uid, row)
    [] row.tbl = "installation_guides" -> installation_guides_update_using(uid, row)
    [] row.tbl = "upgrades" -> upgrades_update_using(uid, row)

DeleteUsing(uid, row) ==
  CASE row.tbl = "solutions" -> solutions_delete_using(uid, row)
    [] row.tbl = "installation_guides" -> installation_guides_delete_using(uid, row)
    [] row.tbl = "upgrades" -> upgrades_delete_using(uid, row)

\* ------------------------------------------- policies, identity tables
profiles_insert_check(uid, row) == SqlEq(uid, row.user_id)
profiles_update_using(uid, row) == has_role(uid, "admin")
profiles_delete_using(uid, row) == has_role(uid, "admin")
\* "Admins can manage roles" FOR ALL USING (...): the only policy an insert can pass.
user_roles_insert_check(uid, row) == has_role(uid, "admin")
\* "Anyone can insert login codes" WITH CHECK (true)
login_codes_insert_check(uid, row) == TRUE

\* ------------------------------------------------------------------- state
\* last: op, the caller's auth.uid(), whether the handler took its success path,
\* the row the statement was about (as it was before), and the argument sent.
NoRow == [id |-> 0, tbl |-> NULL, user_id |-> NULL, title |-> NULL]
NoOp == [op |-> "none", uid |-> NULL, ok |-> FALSE, row |-> NoRow, arg |-> NULL]
Did(op, uid, ok, row, arg) ==
  [op |-> op, uid |-> uid, ok |-> ok, row |-> row, arg |-> arg]

ProfileOf(u) == {p \in profiles : p.user_id = u}
StatusOf(u) == IF ProfileOf(u) = {} THEN "none" ELSE (CHOOSE p \in ProfileOf(u) : TRUE).status

\* a reset-password request: where it is in the function, its body, what it has
\* read, and its response
Requests == {"r1", "r2"}            \* requests the function can be serving at once
Idle == [pc |-> "idle", email |-> NULL, code |-> NULL, pw |-> NULL,
         user |-> NULL, codeId |-> 0, status |-> 0, msg |-> NULL]

\* the admin pages that can be open at once (tabs of the admin's browser)
Panels == {"s1", "s2"}
NoSearch == [pc |-> "none"]
NoPanel == [pc |-> "none"]
\* what every specification starts with outside the tables it is about
InitRest ==
  /\ listing = [s \in Panels |-> {}]
  /\ ai_conversations = {}
  /\ ai_messages = {}
  /\ search = NoSearch
  /\ panel = NoPanel

Init ==
  /\ InitRest
  /\ authUsers = {Admin0}
  /\ profiles = {}
  /\ user_roles = {[user_id |-> Admin0, role |-> "admin"]}
  /\ login_codes = {}
  /\ content = {}
  /\ password = [u \in Identities |-> "initial"]
  /\ reqs = [r \in Requests |-> Idle]
  /\ seq = [rows |-> 0, codes |-> 0, profiles |-> 0, convs |-> 0, msgs |-> 0]
  /\ last = NoOp


\* ------------------------------------ statements under row-level security
\* INSERT: the new row must pass WITH CHECK, else the statement errors.
InsertContentRow(uid, row) ==
  IF InsertCheck(uid, row) THEN content \cup {row} ELSE content

\* UPDATE ... WHERE id = ...: rows that pass USING are changed; with no WITH CHECK
\* clause the USING expression is applied to the new row as well.
UpdateContentRow(uid, id, title) ==
  { IF r.id = id /\ UpdateUsing(uid, r) /\ UpdateUsing(uid, [r EXCEPT !.title = title])
      THEN [r EXCEPT !.title = title] ELSE r : r \in content }

\* DELETE ... WHERE id = ...: rows that pass USING are removed, the others are not seen.
DeleteContentRow(uid, id) ==
  { r \in content : ~(r.id = id /\ DeleteUsing(uid, r)) }

\* UPDATE profiles SET status = ... WHERE <key> = <val>
UpdateProfiles(uid, key, val, status) ==
  { IF p[key] = val /\ profiles_update_using(uid, p)
      THEN [p EXCEPT !.status = status] ELSE p : p \in profiles }

\* DELETE FROM profiles WHERE <key> = <val>
DeleteProfiles(uid, key, val) ==
  { p \in profiles : ~(p[key] = val /\ profiles_delete_using(uid, p)) }

\* ------------------------------------------------------ content handlers
AddContent(op, uid, tbl, owner, title) ==
  LET row == [id |-> seq.rows + 1, tbl |-> tbl, user_id |-> owner, title |-> title] IN
  /\ seq.rows < MaxRows
  /\ content' = InsertContentRow(uid, row)
  /\ seq' = [seq EXCEPT !.rows = IF content' # content THEN @ + 1 ELSE @]
  /\ last' = Did(op, uid, content' # content, row, title)
  /\ UNCHANGED <<listing, aiTables, search, panel, authUsers, profiles, user_roles, login_codes, password, reqs>>

\* Index.handleAddSolution: the insert names no user_id, the column stays NULL.
handleAddSolution(uid, title) ==
  AddContent("handleAddSolution", uid, "solutions", NULL, title)

\* InstallationGuides.handleAddGuide: returns early without a user; user_id = user.id.
handleAddGuide(uid, title) ==
  /\ uid # NULL
  /\ AddContent("handleAddGuide", uid, "installation_guides", uid, title)

\* Upgrades.handleAddUpgrade: as handleAddGuide.
handleAddUpgrade(uid, title) ==
  /\ uid # NULL
  /\ AddContent("handleAddUpgrade", uid, "upgrades", uid, title)

\* handleUpdateSolution / handleUpdateGuide / handleUpdateUpgrade:
\* .update({title, ...}).eq('id', editing.id); the store reports no error when
\* the policy hides the row.
handleUpdate(uid, id, title) ==
  /\ \E r \in content : r.id = id /\ r.title # title
  /\ content' = UpdateContentRow(uid, id, title)
  /\ last' = Did("handleUpdate", uid, TRUE, CHOOSE r \in content : r.id = id, title)
  /\ UNCHANGED <<listing, aiTables, search, panel, authUsers, profiles, user_roles, login_codes, password, reqs, seq>>

\* handleDeleteSolution / handleDeleteGuide / handleDeleteUpgrade: .delete().eq('id', ...)
handleDelete(uid, id) ==
  /\ \E r \in content : r.id = id
  /\ content' = DeleteContentRow(uid, id)
  /\ last' = Did("handleDelete", uid, TRUE, CHOOSE r \in content : r.id = id, NULL)
  /\ UNCHANGED <<listing, aiTables, search, panel, authUsers, profiles, user_roles, login_codes, password, reqs, seq>>

\* ----------------------------------------------------- identity handlers
\* Auth.handleRegister: signUp, insert the profile (throw on error), insert the
\* role row (result ignored), sign out. sess is auth.uid() after signUp: the new
\* identity, or NULL when signUp hands out no session.
handleRegister(u, sess) ==
  LET prof == [id |-> seq.profiles + 1, user_id |-> u, email |-> EmailOf(u),
               status |-> "pending"]
      role == [user_id |-> u, role |-> "user"]
      profOk == profiles_insert_check(sess, prof) /\ ProfileOf(u) = {}
  IN
  /\ u \notin authUsers
  /\ seq.profiles < MaxProfiles
  /\ authUsers' = authUsers \cup {u}
  /\ profiles' = IF profOk THEN profiles \cup {prof} ELSE profiles
  /\ user_roles' = IF profOk /\ user_roles_insert_check(sess, role)
                     THEN user_roles \cup {role} ELSE user_roles
  /\ seq' = [seq EXCEPT !.profiles = IF profOk THEN @ + 1 ELSE @]
  /\ last' = Did("handleRegister", u, profOk, NoRow, sess)
  /\ UNCHANGED <<listing, aiTables, search, panel, login_codes, content, password, reqs>>

\* Admin.handleApproveUser(userId): update status where user_id = userId.
handleApproveUser(uid, userId) ==
  /\ profiles' = UpdateProfiles(uid, "user_id", userId, "approved")
  /\ last' = Did("handleApproveUser", uid, TRUE, NoRow, userId)
  /\ UNCHANGED <<listing, aiTables, search, panel, authUsers, user_roles, login_codes, content, password, reqs, seq>>

\* Admin.handleRejectUser(userId): deletes the profile row where user_id = userId.
handleRejectUser(uid, userId) ==
  /\ profiles' = DeleteProfiles(uid, "user_id", userId)
  /\ last' = Did("handleRejectUser", uid, TRUE, NoRow, userId)
  /\ UNCHANGED <<listing, aiTables, search, panel, authUsers, user_roles, login_codes, content, password, reqs, seq>>

\* The other admin page, handleApproveUser(profile): update where id = profile.id;
\* the profile comes from the page's listing, which may be stale.
handleApproveUser_byId(uid, pid) ==
  /\ profiles' = UpdateProfiles(uid, "id", pid, "approved")
  /\ last' = Did("handleApproveUser_byId", uid, TRUE, NoRow, pid)
  /\ UNCHANGED <<listing, aiTables, search, panel, authUsers, user_roles, login_codes, content, password, reqs, seq>>

\* The other admin page, handleRejectUser(profile): status = 'rejected' where id = profile.id.
handleRejectUser_byId(uid, pid) ==
  /\ profiles' = UpdateProfiles(uid, "id", pid, "rejected")
  /\ last' = Did("handleRejectUser_byId", uid, TRUE, NoRow, pid)
  /\ UNCHANGED <<listing, aiTables, search, panel, authUsers, user_roles, login_codes, content, password, reqs, seq>>

\* handleDeleteUser (both admin pages): delete from profiles where id = deletingUser.id.
handleDeleteUser(uid, pid) ==
  /\ profiles' = DeleteProfiles(uid, "id", pid)
  /\ last' = Did("handleDeleteUser", uid, TRUE, NoRow, pid)
  /\ UNCHANGED <<listing, aiTables, search, panel, authUsers, user_roles, login_codes, content, password, reqs, seq>>

\* --------------------------------------------------- Spec: content + approval
Sessions == authUsers \cup {NULL}      \* whoever can send a request to the store

Next ==
  \/ \E u \in Identities, sess \in Callers : sess \in {u, NULL} /\ handleRegister(u, sess)
  \/ \E uid \in authUsers, p \in profiles : handleApproveUser(uid, p.user_id)
  \/ \E uid \in authUsers, p \in profiles : handleRejectUser(uid, p.user_id)
  \/ \E uid \in authUsers, p \in profiles : handleRejectUser_byId(uid, p.id)
  \/ \E uid \in Sessions : handleAddSolution(uid, "t1")
  \/ \E uid \in Sessions : handleAddGuide(uid, "t1")
  \/ \E uid \in Sessions : handleAddUpgrade(uid, "t1")
  \/ \E uid \in Sessions, r \in content, title \in Titles : handleUpdate(uid, r.id, title)
  \/ \E uid \in Sessions, r \in content : handleDelete(uid, r.id)

Spec == Init /\ [][Next]_vars


\* -------------------------------------------- SpecRead: reads of content
\* select * from <table> where id = ... by caller uid: the row comes back when
\* it passes the table's SELECT policy.
ReadContent(uid, id) ==
  LET row == CHOOSE r \in content : r.id = id IN
  /\ \E r \in content : r.id = id
  /\ last' = Did("ReadContent", uid, SelectUsing(uid, row), row, StatusOf(uid))
  /\ last' # last
  /\ UNCHANGED <<listing, aiTables, search, panel, authUsers, profiles, user_roles, login_codes,
                 content, password, reqs, seq>>

NextRead ==
  \/ \E u \in Identities : handleRegister(u, u)
  \/ \E p \in profiles : handleApproveUser(Admin0, p.user_id)
  \/ \E p \in profiles : handleRejectUser_byId(Admin0, p.id)
  \/ \E uid \in Sessions : handleAddSolution(uid, "t1")
  \/ \E uid \in Sessions : handleAddGuide(uid, "t1")
  \/ \E uid \in Sessions : handleAddUpgrade(uid, "t1")
  \/ \E uid \in Sessions, r \in content : ReadContent(uid, r.id)

SpecRead == Init /\ [][NextRead]_vars

\* ----------------------------------- statements sent straight to the store
\* supabase.auth.signUp from any client: a new auth.users row, nothing else.
SignUp(u) ==
  /\ u \notin authUsers
  /\ authUsers' = authUsers \cup {u}
  /\ last' = Did("SignUp", u, TRUE, NoRow, NULL)
  /\ UNCHANGED <<listing, aiTables, search, panel, profiles, user_roles, login_codes, content, password, reqs, seq>>

\* INSERT INTO profiles by caller uid: WITH CHECK (auth.uid() = user_id); user_id
\* is UNIQUE and references auth.users; status is whatever the caller sends.
InsertProfile(uid, user_id, status) ==
  LET row == [id |-> seq.profiles + 1, user_id |-> user_id, email |-> EmailOf(user_id),
              status |-> status]
      ok == /\ profiles_insert_check(uid, row)
            /\ user_id \in authUsers
            /\ ProfileOf(user_id) = {}
  IN
  /\ seq.profiles < MaxProfiles
  /\ profiles' = IF ok THEN profiles \cup {row} ELSE profiles
  /\ seq' = [seq EXCEPT !.profiles = IF ok THEN @ + 1 ELSE @]
  /\ last' = Did("InsertProfile", uid, ok, row, status)
  /\ UNCHANGED <<listing, aiTables, search, panel, authUsers, user_roles, login_codes, content, password, reqs>>

\* UPDATE profiles SET status = ... WHERE user_id = ... by caller uid.
UpdateProfile(uid, user_id, status) ==
  /\ ProfileOf(user_id) # {}
  /\ StatusOf(user_id) # status
  /\ profiles' = UpdateProfiles(uid, "user_id", user_id, status)
  /\ last' = Did("UpdateProfile", uid, profiles' # profiles,
                 CHOOSE p \in ProfileOf(user_id) : TRUE, status)
  /\ UNCHANGED <<listing, aiTables, search, panel, authUsers, user_roles, login_codes, content, password, reqs, seq>>

\* DELETE FROM profiles WHERE user_id = ... by caller uid.
DeleteProfile(uid, user_id) ==
  /\ ProfileOf(user_id) # {}
  /\ profiles' = DeleteProfiles(uid, "user_id", user_id)
  /\ last' = Did("DeleteProfile", uid, profiles' # profiles,
                 CHOOSE p \in ProfileOf(user_id) : TRUE, NULL)
  /\ UNCHANGED <<listing, aiTables, search, panel, authUsers, user_roles, login_codes, content, password, reqs, seq>>

\* INSERT INTO user_roles by caller uid; UNIQUE (user_id, role).
InsertRole(uid, user_id, role) ==
  LET row == [user_id |-> user_id, role |-> role]
      ok == user_roles_insert_check(uid, row) /\ user_id \in authUsers /\ row \notin user_roles
  IN
  /\ user_roles' = IF ok THEN user_roles \cup {row} ELSE user_roles
  /\ last' = Did("InsertRole", uid, ok, row, role)
  /\ UNCHANGED <<listing, aiTables, search, panel, authUsers, profiles, login_codes, content, password, reqs, seq>>

\* INSERT INTO login_codes by caller uid; used defaults to false.
InsertLoginCodeRow(uid, row) ==
  IF login_codes_insert_check(uid, row) /\ row.user_id \in authUsers
    THEN login_codes \cup {row} ELSE login_codes

InsertLoginCode(uid, user_id, code) ==
  LET row == [id |-> seq.codes + 1, user_id |-> user_id, code |-> code, used |-> FALSE] IN
  /\ seq.codes < MaxCodes
  /\ login_codes' = InsertLoginCodeRow(uid, row)
  /\ seq' = [seq EXCEPT !.codes = IF login_codes' # login_codes THEN @ + 1 ELSE @]
  /\ last' = Did("InsertLoginCode", uid, login_codes' # login_codes, row, code)
  /\ UNCHANGED <<listing, aiTables, search, panel, authUsers, profiles, user_roles, content, password, reqs>>

\* Auth.handleLogin: signInWithPassword; on success insert a generated code for
\* data.user.id (result ignored); on error only a toast.
Codes == {"A", "B"}                 \* values generateLoginCode can return
handleLogin(u, pw, code) ==
  LET signedIn == u \in authUsers /\ pw = password[u]
      row == [id |-> seq.codes + 1, user_id |-> u, code |-> code, used |-> FALSE]
  IN
  /\ seq.codes < MaxCodes
  /\ login_codes' = IF signedIn THEN InsertLoginCodeRow(u, row) ELSE login_codes
  /\ seq' = [seq EXCEPT !.codes = IF login_codes' # login_codes THEN @ + 1 ELSE @]
  /\ last' = Did("handleLogin", u, signedIn, row, pw)
  /\ UNCHANGED <<listing, aiTables, search, panel, authUsers, profiles, user_roles, content, password, reqs>>

\* ------------------------------------------ SpecIdentity: identity tables
NextIdentity ==
  \/ \E u \in Identities : SignUp(u)
  \/ \E u \in Identities, sess \in Callers : sess \in {u, NULL} /\ handleRegister(u, sess)
  \/ \E uid \in Sessions, u \in Registrants, st \in Statuses : InsertProfile(uid, u, st)
  \/ \E uid \in Sessions, u \in Registrants, st \in Statuses : UpdateProfile(uid, u, st)
  \/ \E uid \in Sessions, u \in Registrants : DeleteProfile(uid, u)
  \/ \E uid \in Sessions, u \in {"u1"}, role \in Roles : InsertRole(uid, u, role)

SpecIdentity == Init /\ [][NextIdentity]_vars

\* ------------------------------------------- reset-password edge function
MinPasswordLength == 6
ReqEmails == {"", "mail_u1", "mail_nobody"}
ReqCodes == {""} \cup Codes
ReqPasswords == {"", "short", "secret1"}

MsgRequired == "Email, reset code, and new password are required"
MsgShort == "Password must be at least 6 characters"
MsgNotFound == "Email not found"
MsgInvalid == "Invalid or already used reset code"
MsgFailed == "Failed to update password"
MsgOk == "Password reset successfully"

Respond(q, status, msg) == [q EXCEPT !.pc = "done", !.status = status, !.msg = msg]
Step(r, q) ==
  /\ reqs' = [reqs EXCEPT ![r] = q]
  /\ last' = Did("reset", r, q.status = 200, NoRow, q.pc)

\* .maybeSingle(): data is the row when exactly one matches and null (here the
\* empty set) when none does; several matches or a failed call give an error.
maybeSingle(rows, err) ==
  IF err \/ Cardinality(rows) > 1 THEN [data |-> {}, error |-> TRUE]
  ELSE [data |-> rows, error |-> FALSE]
Row(data) == CHOOSE x \in data : TRUE

\* the validation of lines 16-30 without the length test of line 25
Receive_NoLengthCheck(r, email, code, pw) ==
  LET q == [Idle EXCEPT !.email = email, !.code = code, !.pw = pw] IN
  /\ reqs[r].pc = "idle"
  /\ Step(r, IF email = "" \/ code = "" \/ pw = "" THEN Respond(q, 400, MsgRequired)
             ELSE [q EXCEPT !.pc = "profile"])
  /\ UNCHANGED <<listing, aiTables, search, panel, authUsers, profiles, user_roles, login_codes, content, password, seq>>

\* lines 16-30: parse the body, reject missing fields and short passwords.
Receive(r, email, code, pw) ==
  LET q == [Idle EXCEPT !.email = email, !.code = code, !.pw = pw] IN
  /\ reqs[r].pc = "idle"
  /\ Step(r, IF email = "" \/ code = "" \/ pw = "" THEN Respond(q, 400, MsgRequired)
             ELSE IF Len(pw) < MinPasswordLength THEN Respond(q, 400, MsgShort)
             ELSE [q EXCEPT !.pc = "profile"])
  /\ UNCHANGED <<listing, aiTables, search, panel, authUsers, profiles, user_roles, login_codes, content, password, seq>>

\* lines 44-57: profiles where email = email, maybeSingle.
LookupProfile(r, err) ==
  LET q == reqs[r]
      res == maybeSingle({p \in profiles : p.email = q.email}, err)
  IN
  /\ q.pc = "profile"
  /\ Step(r, IF res.error \/ res.data = {} THEN Respond(q, 404, MsgNotFound)
             ELSE [q EXCEPT !.pc = "code", !.user = Row(res.data).user_id])
  /\ UNCHANGED <<listing, aiTables, search, panel, authUsers, profiles, user_roles, login_codes, content, password, seq>>

\* lines 59-74: login_codes where user_id, code, used = false; maybeSingle.
MatchingCodesAnyUse(q) ==
  {c \in login_codes : c.user_id = q.user /\ c.code = q.code}
MatchingCodes(q) ==
  {c \in login_codes : c.user_id = q.user /\ c.code = q.code /\ c.used = FALSE}

LookupCode(r, err) ==
  LET q == reqs[r]
      res == maybeSingle(MatchingCodes(q), err)
  IN
  /\ q.pc = "code"
  /\ Step(r, IF res.error \/ res.data = {} THEN Respond(q, 400, MsgInvalid)
             ELSE [q EXCEPT !.pc = "update", !.codeId = Row(res.data).id])
  /\ UNCHANGED <<listing, aiTables, search, panel, authUsers, profiles, user_roles, login_codes, content, password, seq>>

\* lines 76-88: auth.admin.updateUserById(profile.user_id, {password}).
UpdatePassword(r, err) ==
  LET q == reqs[r] IN
  /\ q.pc = "update"
  /\ password' = IF err THEN password ELSE [password EXCEPT ![q.user] = q.pw]
  /\ Step(r, IF err THEN Respond(q, 500, MsgFailed) ELSE [q EXCEPT !.pc = "mark"])
  /\ UNCHANGED <<listing, aiTables, search, panel, authUsers, profiles, user_roles, login_codes, content, seq>>

\* lines 90-101: update login_codes set used = true where id = codeData.id; the
\* result of the call is not looked at; respond 200.
MarkUsed(r, err) ==
  LET q == reqs[r] IN
  /\ q.pc = "mark"
  /\ login_codes' = IF err THEN login_codes
                    ELSE {IF c.id = q.codeId THEN [c EXCEPT !.used = TRUE] ELSE c : c \in login_codes}
  /\ Step(r, Respond(q, 200, MsgOk))
  /\ UNCHANGED <<listing, aiTables, search, panel, authUsers, profiles, user_roles, content, password, seq>>

\* ------------------------------------------- SpecReset: codes and resets
InitReset ==
  /\ InitRest
  /\ authUsers = Identities
  /\ profiles = {[id |-> 1, user_id |-> "u1", email |-> EmailOf("u1"), status |-> "approved"],
                 [id |-> 2, user_id |-> "u2", email |-> EmailOf("u2"), status |-> "pending"]}
  /\ user_roles = {[user_id |-> Admin0, role |-> "admin"]}
  /\ login_codes = {}
  /\ content = {}
  /\ password = [u \in Identities |-> "initial"]
  /\ reqs = [r \in Requests |-> Idle]
  /\ seq = [rows |-> 0, codes |-> 0, profiles |-> 2, convs |-> 0, msgs |-> 0]
  /\ last = NoOp

NextReset ==
  \/ \E u \in Registrants, pw \in {"initial", "secret1"}, code \in Codes : handleLogin(u, pw, code)
  \/ \E uid \in Callers, u \in Registrants, code \in Codes : InsertLoginCode(uid, u, code)
  \/ \E r \in Requests, e \in ReqEmails, c \in ReqCodes, pw \in ReqPasswords : Receive(r, e, c, pw)
  \/ \E r \in Requests, err \in BOOLEAN : LookupProfile(r, err)
  \/ \E r \in Requests, err \in BOOLEAN : LookupCode(r, err)
  \/ \E r \in Requests, err \in BOOLEAN : UpdatePassword(r, err)
  \/ \E r \in Requests, err \in BOOLEAN : MarkUsed(r, err)

SpecReset == InitReset /\ [][NextReset]_vars

\* SpecRace: the same function with every store call answering (no call fails),
\* so that two requests differ only in how their steps interleave.
NextRace ==
  \/ \E u \in Registrants, code \in Codes : handleLogin(u, password[u], code)
  \/ \E r \in Requests, e \in ReqEmails, c \in ReqCodes, pw \in ReqPasswords : Receive(r, e, c, pw)
  \/ \E r \in Requests : LookupProfile(r, FALSE)
  \/ \E r \in Requests : LookupCode(r, FALSE)
  \/ \E r \in Requests : UpdatePassword(r, FALSE)
  \/ \E r \in Requests : MarkUsed(r, FALSE)

SpecRace == InitReset /\ [][NextRace]_vars

\* ------------------------------------- policies, conversations and messages
\* "Users can view / create / update / delete their own conversations"
ai_conversations_select_using_or_admin(uid, row) ==
  SqlEq(uid, row.user_id) \/ has_role(uid, "admin")
ai_conversations_select_using(uid, row) == SqlEq(uid, row.user_id)
ai_conversations_insert_check(uid, row) == SqlEq(uid, row.user_id)
ai_conversations_update_using(uid, row) == SqlEq(uid, row.user_id)
ai_conversations_delete_using(uid, row) == SqlEq(uid, row.user_id)

\* "Users can view / insert messages in their conversations": EXISTS (select 1
\* from ai_conversations where id = conversation_id and user_id = auth.uid());
\* convs is the ai_conversations table at the time of the statement.
ai_messages_select_using(uid, row, convs) ==
  \E c \in convs : c.id = row.conversation_id /\ SqlEq(c.user_id, uid)
ai_messages_insert_check(uid, row, convs) ==
  \E c \in convs : c.id = row.conversation_id /\ SqlEq(c.user_id, uid)
\* row level security is enabled and ai_messages has no UPDATE or DELETE policy
ai_messages_update_using(uid, row, convs) == FALSE
ai_messages_delete_using(uid, row, convs) == FALSE

\* ------------------------------------ statements on conversations, messages
Times == {"d1", "d2"}               \* now() at two moments, d1 before d2
NoConv == [id |-> 0, user_id |-> NULL, title |-> NULL, created_at |-> NULL, updated_at |-> NULL]
NoMsg == [id |-> 0, conversation_id |-> 0, role |-> NULL, content |-> NULL,
          relevant_solutions |-> NULL]
ConvOf(id) == IF \E c \in ai_conversations : c.id = id
                THEN CHOOSE c \in ai_conversations : c.id = id ELSE NoConv
MsgOf(id) == IF \E m \in ai_messages : m.id = id
               THEN CHOOSE m \in ai_messages : m.id = id ELSE NoMsg

\* INSERT INTO ai_conversations: WITH CHECK, user_id references auth.users.
InsertConversationRow(uid, row, convs) ==
  IF ai_conversations_insert_check(uid, row) /\ row.user_id \in authUsers
    THEN convs \cup {row} ELSE convs

\* INSERT INTO ai_messages: WITH CHECK (which also needs the conversation to exist).
InsertMessageRow(uid, row, convs, msgs) ==
  IF ai_messages_insert_check(uid, row, convs) THEN msgs \cup {row} ELSE msgs

\* UPDATE ai_conversations SET <col> = <val> WHERE id = ...: USING on the row as
\* it is and, with no WITH CHECK clause, on the row as it would become.
UpdateConversationRows(uid, id, col, val, convs) ==
  { IF /\ c.id = id
       /\ ai_conversations_update_using(uid, c)
       /\ ai_conversations_update_using(uid, [c EXCEPT ![col] = val])
      THEN [c EXCEPT ![col] = val] ELSE c : c \in convs }

\* DELETE FROM ai_conversations WHERE id = ...; ai_messages.conversation_id is
\* ON DELETE CASCADE.
DeleteConversationRows(uid, id, convs) ==
  { c \in convs : ~(c.id = id /\ ai_conversations_delete_using(uid, c)) }
CascadeMessages(convs, msgs) ==
  { m \in msgs : \E c \in convs : c.id = m.conversation_id }

\* ---------------------------------------------------- AIQueryPanel handlers
\* handleSubmit of user u with currentConversationId = cur (0: none); answered
\* says whether the ai-search call returned. The conversation is created when
\* there is none, the user message is saved, and after the answer the assistant
\* message is saved and updated_at is set; isApproved is the profile's status.
handleSubmit(u, cur, answered) ==
  LET saving == u \in authUsers /\ is_approved(u)
      conv == [id |-> seq.convs + 1, user_id |-> u, title |-> "t1",
               created_at |-> "d1", updated_at |-> "d1"]
      creating == saving /\ cur = 0
      convs1 == IF creating THEN InsertConversationRow(u, conv, ai_conversations)
                ELSE ai_conversations
      created == convs1 # ai_conversations
      conversationId == IF cur # 0 THEN cur ELSE IF created THEN conv.id ELSE 0
      userMsg == [id |-> seq.msgs + 1, conversation_id |-> conversationId, role |-> "user",
                  content |-> "query", relevant_solutions |-> NULL]
      msgs1 == IF saving /\ conversationId # 0
                 THEN InsertMessageRow(u, userMsg, convs1, ai_messages) ELSE ai_messages
      n1 == IF msgs1 # ai_messages THEN seq.msgs + 1 ELSE seq.msgs
      asstMsg == [id |-> n1 + 1, conversation_id |-> conversationId, role |-> "assistant",
                  content |-> "answer", relevant_solutions |-> "refs"]
      storing == answered /\ saving /\ conversationId # 0
      msgs2 == IF storing THEN InsertMessageRow(u, asstMsg, convs1, msgs1) ELSE msgs1
      n2 == IF msgs2 # msgs1 THEN n1 + 1 ELSE n1
      convs2 == IF storing
                  THEN UpdateConversationRows(u, conversationId, "updated_at", "d2", convs1)
                  ELSE convs1
  IN
  /\ cur \in 0..seq.convs
  /\ seq.convs < MaxConvs \/ ~creating
  /\ seq.msgs + 2 <= MaxMsgs
  /\ ai_conversations' = convs2
  /\ ai_messages' = msgs2
  /\ seq' = [seq EXCEPT !.convs = IF created THEN @ + 1 ELSE @, !.msgs = n2]
  /\ last' = Did("handleSubmit", u, msgs2 # ai_messages, ConvOf(cur), cur)
  /\ UNCHANGED <<authUsers, profiles, user_roles, login_codes, content, password, reqs,
                 listing, search, panel>>

\* deleteConversation / handleDeleteConversation: delete where id = conversationId.
deleteConversation(uid, id) ==
  /\ \E c \in ai_conversations : c.id = id
  /\ ai_conversations' = DeleteConversationRows(uid, id, ai_conversations)
  /\ ai_messages' = CascadeMessages(ai_conversations', ai_messages)
  /\ last' = Did("deleteConversation", uid, ai_conversations' # ai_conversations, ConvOf(id), id)
  /\ UNCHANGED <<authUsers, profiles, user_roles, login_codes, content, password, reqs, seq,
                 listing, search, panel>>

\* ---------------- statements on conversations and messages, sent by any client
\* select * from ai_conversations where id = ...
ReadConversation(uid, id) ==
  /\ \E c \in ai_conversations : c.id = id
  /\ last' = Did("ReadConversation", uid, ai_conversations_select_using(uid, ConvOf(id)),
                 ConvOf(id), id)
  /\ last' # last
  /\ UNCHANGED <<authUsers, profiles, user_roles, login_codes, content, password, reqs, seq,
                 listing, aiTables, search, panel>>

\* select * from ai_messages where id = ...
ReadMessage(uid, id) ==
  /\ \E m \in ai_messages : m.id = id
  /\ last' = Did("ReadMessage", uid,
                 ai_messages_select_using(uid, MsgOf(id), ai_conversations), MsgOf(id), id)
  /\ last' # last
  /\ UNCHANGED <<authUsers, profiles, user_roles, login_codes, content, password, reqs, seq,
                 listing, aiTables, search, panel>>

InsertConversation(uid, owner, title) ==
  LET row == [id |-> seq.convs + 1, user_id |-> owner, title |-> title,
              created_at |-> "d1", updated_at |-> "d1"] IN
  /\ seq.convs < MaxConvs
  /\ ai_conversations' = InsertConversationRow(uid, row, ai_conversations)
  /\ seq' = [seq EXCEPT !.convs = IF ai_conversations' # ai_conversations THEN @ + 1 ELSE @]
  /\ last' = Did("InsertConversation", uid, ai_conversations' # ai_conversations, row, owner)
  /\ UNCHANGED <<authUsers, profiles, user_roles, login_codes, content, password, reqs,
                 listing, ai_messages, search, panel>>

\* update ai_conversations set <col> = <val> where id = ...
UpdateConversation(uid, id, col, val) ==
  /\ \E c \in ai_conversations : c.id = id /\ c[col] # val
  /\ ai_conversations' = UpdateConversationRows(uid, id, col, val, ai_conversations)
  /\ last' = Did("UpdateConversation", uid, ai_conversations' # ai_conversations, ConvOf(id), col)
  /\ UNCHANGED <<authUsers, profiles, user_roles, login_codes, content, password, reqs, seq,
                 listing, ai_messages, search, panel>>

InsertMessage(uid, conversation_id, role) ==
  LET row == [id |-> seq.msgs + 1, conversation_id |-> conversation_id, role |-> role,
              content |-> "query", relevant_solutions |-> NULL] IN
  /\ seq.msgs < MaxMsgs
  /\ ai_messages' = InsertMessageRow(uid, row, ai_conversations, ai_messages)
  /\ seq' = [seq EXCEPT !.msgs = IF ai_messages' # ai_messages THEN @ + 1 ELSE @]
  /\ last' = Did("InsertMessage", uid, ai_messages' # ai_messages, row, conversation_id)
  /\ UNCHANGED <<authUsers, profiles, user_roles, login_codes, content, password, reqs,
                 listing, ai_conversations, search, panel>>

\* update ai_messages set content = ... where id = ...
UpdateMessage(uid, id, text) ==
  /\ \E m \in ai_messages : m.id = id /\ m.content # text
  /\ ai_messages' = { IF m.id = id /\ ai_messages_update_using(uid, m, ai_conversations)
                        THEN [m EXCEPT !.content = text] ELSE m : m \in ai_messages }
  /\ last' = Did("UpdateMessage", uid, ai_messages' # ai_messages, MsgOf(id), text)
  /\ last' # last
  /\ UNCHANGED <<authUsers, profiles, user_roles, login_codes, content, password, reqs, seq,
                 listing, ai_conversations, search, panel>>

\* delete from ai_messages where id = ...
DeleteMessage(uid, id) ==
  /\ \E m \in ai_messages : m.id = id
  /\ ai_messages' = { m \in ai_messages :
                        ~(m.id = id /\ ai_messages_delete_using(uid, m, ai_conversations)) }
  /\ last' = Did("DeleteMessage", uid, ai_messages' # ai_messages, MsgOf(id), id)
  /\ last' # last
  /\ UNCHANGED <<authUsers, profiles, user_roles, login_codes, content, password, reqs, seq,
                 listing, ai_conversations, search, panel>>

\* ------------------------------------- SpecConv: conversations and messages
ConvCols == {"title", "updated_at", "created_at", "user_id"}
ColValues(col) ==
  CASE col = "title" -> Titles
    [] col = "user_id" -> Identities
    [] OTHER -> Times

NextConv ==
  \/ \E u \in {"u1"}, cur \in 0..MaxConvs, answered \in BOOLEAN : handleSubmit(u, cur, answered)
  \/ \E uid \in Callers, c \in ai_conversations : deleteConversation(uid, c.id)
  \/ \E uid \in Callers, c \in ai_conversations : ReadConversation(uid, c.id)
  \/ \E uid \in Callers, m \in ai_messages : ReadMessage(uid, m.id)
  \/ \E uid \in Callers, owner \in {"u1"} : InsertConversation(uid, owner, "t1")
  \/ \E uid \in Callers, c \in ai_conversations, col \in ConvCols :
       \E val \in ColValues(col) : UpdateConversation(uid, c.id, col, val)
  \/ \E uid \in Callers, id \in 1..MaxConvs, role \in {"user"} : InsertMessage(uid, id, role)
  \/ \E uid \in Callers, m \in ai_messages : UpdateMessage(uid, m.id, "edited")
  \/ \E uid \in Callers, m \in ai_messages : DeleteMessage(uid, m.id)

SpecConv == InitReset /\ [][NextConv]_vars

\* -------------------------------------------------- SpecAdmin: admin pages
\* "Users can view their own profile" / "Admins can view all profiles"
profiles_select_using(uid, row) == SqlEq(uid, row.user_id) \/ has_role(uid, "admin")
SelectProfiles(uid, rows) == {p \in rows : profiles_select_using(uid, p)}

\* the two lists an admin page renders from what it fetched
pendingUsers(users) == {u \in users : u.status = "pending"}
approvedUsers(users) == {u \in users : u.status = "approved"}

\* the stored profile a statement with WHERE <key> = <val> is about, if any
Stored(key, val) ==
  IF \E p \in profiles : p[key] = val THEN CHOOSE p \in profiles : p[key] = val
  ELSE [id |-> 0, user_id |-> NULL, email |-> NULL, status |-> "none"]

\* fetchData: select * from profiles, as the admin (the pages render for admins only).
AdminPage_fetchData(s) ==
  /\ listing' = [listing EXCEPT ![s] = SelectProfiles(Admin0, profiles)]
  /\ listing' # listing
  /\ last' = Did("fetchData", Admin0, TRUE, NoRow, s)
  /\ UNCHANGED <<authUsers, profiles, user_roles, login_codes, content, password, reqs, seq,
                 aiTables, search, panel>>

\* Admin.tsx handleApproveUser, from the Approve button of a listed pending user:
\* update status = approved where user_id = user.user_id, then fetchData.
AdminPage_handleApproveUser(s, user) ==
  /\ user \in pendingUsers(listing[s])
  /\ profiles' = UpdateProfiles(Admin0, "user_id", user.user_id, "approved")
  /\ listing' = [listing EXCEPT ![s] = SelectProfiles(Admin0, profiles')]
  /\ last' = Did("handleApproveUser", Admin0, TRUE, Stored("user_id", user.user_id), s)
  /\ UNCHANGED <<authUsers, user_roles, login_codes, content, password, reqs, seq,
                 aiTables, search, panel>>

\* Admin.tsx handleRejectUser, from the Reject button of a listed pending user:
\* delete from profiles where user_id = user.user_id, then fetchData.
AdminPage_handleRejectUser(s, user) ==
  /\ user \in pendingUsers(listing[s])
  /\ profiles' = DeleteProfiles(Admin0, "user_id", user.user_id)
  /\ listing' = [listing EXCEPT ![s] = SelectProfiles(Admin0, profiles')]
  /\ last' = Did("handleRejectUser", Admin0, TRUE, Stored("user_id", user.user_id), s)
  /\ UNCHANGED <<authUsers, user_roles, login_codes, content, password, reqs, seq,
                 aiTables, search, panel>>

\* The other admin page, handleApproveUser(profile): update status = approved
\* where id = profile.id, then fetchData.
AdminPage_handleApproveUser_byId(s, profile) ==
  /\ profile \in pendingUsers(listing[s])
  /\ profiles' = UpdateProfiles(Admin0, "id", profile.id, "approved")
  /\ listing' = [listing EXCEPT ![s] = SelectProfiles(Admin0, profiles')]
  /\ last' = Did("handleApproveUser_byId", Admin0, TRUE, Stored("id", profile.id), s)
  /\ UNCHANGED <<authUsers, user_roles, login_codes, content, password, reqs, seq,
                 aiTables, search, panel>>

\* The other admin page, handleRejectUser(profile): update status = rejected where
\* id = profile.id, then drop the profile from the page's list (no fetch).
AdminPage_handleRejectUser_byId(s, profile) ==
  /\ profile \in pendingUsers(listing[s])
  /\ profiles' = UpdateProfiles(Admin0, "id", profile.id, "rejected")
  /\ listing' = [listing EXCEPT ![s] = {p \in listing[s] : p.id # profile.id}]
  /\ last' = Did("handleRejectUser_byId", Admin0, TRUE, Stored("id", profile.id), s)
  /\ UNCHANGED <<authUsers, user_roles, login_codes, content, password, reqs, seq,
                 aiTables, search, panel>>

\* handleDeleteUser (both pages), from the delete button of a listed approved
\* user: delete from profiles where id = deletingUser.id, then fetchData.
AdminPage_handleDeleteUser(s, deletingUser) ==
  /\ deletingUser \in approvedUsers(listing[s])
  /\ profiles' = DeleteProfiles(Admin0, "id", deletingUser.id)
  /\ listing' = [listing EXCEPT ![s] = SelectProfiles(Admin0, profiles')]
  /\ last' = Did("handleDeleteUser", Admin0, TRUE, Stored("id", deletingUser.id), s)
  /\ UNCHANGED <<authUsers, user_roles, login_codes, content, password, reqs, seq,
                 aiTables, search, panel>>

\* two registrations waiting for the admin
InitAdmin ==
  /\ authUsers = Identities
  /\ profiles = {[id |-> 1, user_id |-> "u1", email |-> EmailOf("u1"), status |-> "pending"],
                 [id |-> 2, user_id |-> "u2", email |-> EmailOf("u2"), status |-> "pending"]}
  /\ user_roles = {[user_id |-> Admin0, role |-> "admin"]}
  /\ login_codes = {}
  /\ content = {}
  /\ password = [u \in Identities |-> "initial"]
  /\ reqs = [r \in Requests |-> Idle]
  /\ seq = [rows |-> 0, codes |-> 0, profiles |-> 2, convs |-> 0, msgs |-> 0]
  /\ last = NoOp
  /\ listing = [s \in Panels |-> {}]
  /\ ai_conversations = {}
  /\ ai_messages = {}
  /\ search = NoSearch
  /\ panel = NoPanel

NextAdmin ==
  \/ \E s \in Panels : AdminPage_fetchData(s)
  \/ \E s \in Panels : \E u \in listing[s] : AdminPage_handleApproveUser(s, u)
  \/ \E s \in Panels : \E u \in listing[s] : AdminPage_handleRejectUser(s, u)
  \/ \E s \in Panels : \E u \in listing[s] : AdminPage_handleApproveUser_byId(s, u)
  \/ \E s \in Panels : \E u \in listing[s] : AdminPage_handleRejectUser_byId(s, u)
  \/ \E s \in Panels : \E u \in listing[s] : AdminPage_handleDeleteUser(s, u)
  \/ \E u \in {"u1"} : InsertRole(Admin0, u, "user")
  \/ \E u \in {"u1"}, cur \in 0..MaxConvs : handleSubmit(u, cur, TRUE)

SpecAdmin == InitAdmin /\ [][NextAdmin]_vars

\* --------------------------------------------------- ai-search edge function
MaxProse == 2      \* tokens of prose before and after the object in a reply

\* A reply of the model is a sequence of tokens: words, braces, and "body" for
\* the text between the braces of the JSON object the prompt asks for.
ProseTokens == {"w", "{", "}"}
Prose == UNION {[1..n -> ProseTokens] : n \in 0..MaxProse}
JsonObject == <<"{", "body", "}">>

Indices(text, tok) == {i \in 1..Len(text) : text[i] = tok}
Min(S) == CHOOSE x \in S : \A y \in S : x <= y
Max(S) == CHOOSE x \in S : \A y \in S : x >= y

\* aiContent.match(/\{[\s\S]*\}/): from the first "{" to the last "}" of the
\* text (the star is greedy); <<>> stands for no match.
match(aiContent) ==
  LET opens == Indices(aiContent, "{")
      closes == Indices(aiContent, "}")
  IN IF opens # {} /\ closes # {} /\ Min(opens) < Max(closes)
       THEN SubSeq(aiContent, Min(opens), Max(closes))
       ELSE <<>>

\* JSON.parse of a matched text: the object the reply carries when the text is
\* exactly that object, the empty object for "{}", a SyntaxError otherwise.
\* answerType / idsType are the JavaScript types of the two fields.
EmptyObject == [answer |-> <<>>, relevantIds |-> {}, answerType |-> "undefined",
                idsType |-> "undefined"]
JSONparse(text, obj) ==
  IF text = JsonObject THEN [error |-> FALSE, value |-> obj]
  ELSE IF text = <<"{", "}">> THEN [error |-> FALSE, value |-> EmptyObject]
  ELSE [error |-> TRUE, value |-> EmptyObject]

\* the parsing of lines 447-458 with the catch returning what was parsed
parsedResponse_noFallback(aiContent, obj) == JSONparse(match(aiContent), obj).value

\* lines 447-458: parse the reply, falling back to the whole reply as the answer.
parsedResponse(aiContent, obj) ==
  LET jsonMatch == match(aiContent)
      fallback == [answer |-> aiContent, relevantIds |-> {}, answerType |-> "string",
                   idsType |-> "list"]
  IN IF jsonMatch = <<>> THEN fallback
     ELSE IF JSONparse(jsonMatch, obj).error THEN fallback
     ELSE JSONparse(jsonMatch, obj).value

GatewayStatuses == {200, 429, 402, 500}
\* the message of the handler that reads the solutions table only
MsgNoSolutions ==
  <<"No solutions have been added to the knowledge base yet. Add some solutions first to enable AI-powered search.">>
MsgNoContent ==
  <<"No content has been added to the knowledge base yet. Add some solutions, installation guides, or upgrades first to enable AI-powered search.">>
MsgRateLimit == "Rate limit exceeded. Please try again later."
MsgCredits == "AI credits exhausted. Please add more credits."
MsgGateway == "AI gateway error"
MsgNotAFunction == "parsedResponse.relevantIds?.includes is not a function"

SearchOk(answer, answerType, rel) ==
  [status |-> 200, answer |-> answer, answerType |-> answerType, relevantSolutions |-> rel,
   error |-> NULL]
SearchError(status, msg) ==
  [status |-> status, answer |-> <<>>, answerType |-> "undefined", relevantSolutions |-> {},
   error |-> msg]

\* every failed model call answered as a generic failure
gatewayError_generic(status) == SearchError(500, MsgGateway)
\* lines 423-439 and the catch of 471-478: the response for a model call that
\* was not ok.
gatewayError(status) ==
  IF status = 429 THEN SearchError(429, MsgRateLimit)
  ELSE IF status = 402 THEN SearchError(402, MsgCredits)
  ELSE SearchError(500, MsgGateway)

\* what a select of table tbl hands to the handler: result.data || []
Fetched(tbl, readFails) ==
  IF tbl \in readFails THEN {} ELSE {r \in content : r.tbl = tbl}

\* the ai-search handler: fetch the three content tables (service role, no
\* policy applies; the results' errors are not looked at), answer at once when
\* all three lists are empty, call the gateway once, parse its reply, and pick
\* the relevant rows from the fetched solutions.
ai_search ==
  LET q == search
      solutions == Fetched("solutions", q.readFails)
      guides == Fetched("installation_guides", q.readFails)
      upgrades == Fetched("upgrades", q.readFails)
      empty == solutions = {} /\ guides = {} /\ upgrades = {}
      parsed == parsedResponse(q.aiContent, q.obj)
      relevantSolutions ==
        IF parsed.idsType = "list" THEN {s1 \in solutions : s1.id \in parsed.relevantIds}
        ELSE {}
  IN
  /\ q.pc = "asked"
  /\ search' = [q EXCEPT !.pc = "done",
       !.calls = IF empty THEN 0 ELSE 1,
       !.response =
         IF empty THEN SearchOk(MsgNoContent, "string", {})
         ELSE IF q.gateway # 200 THEN gatewayError(q.gateway)
         ELSE IF solutions # {} /\ parsed.idsType \notin {"list", "undefined"}
           THEN SearchError(500, MsgNotAFunction)    \* thrown in the filter callback
         ELSE SearchOk(parsed.answer, parsed.answerType, relevantSolutions)]
  /\ last' = Did("ai_search", NULL, search'.response.status = 200, NoRow, NULL)
  /\ UNCHANGED <<authUsers, profiles, user_roles, login_codes, content, password, reqs, seq,
                 listing, aiTables, panel>>

\* ----------------------------------------------- SpecSearch: one ai-search
\* a knowledge base with one row in each content table, or none at all
KnowledgeBase ==
  {[id |-> 1, tbl |-> "solutions", user_id |-> Admin0, title |-> "t1"],
   [id |-> 2, tbl |-> "installation_guides", user_id |-> Admin0, title |-> "t1"],
   [id |-> 3, tbl |-> "upgrades", user_id |-> Admin0, title |-> "t1"]}
ReplyIds == 1..4                    \* the ids a reply can name; 4 is no row's id
ContentTables == {"solutions", "installation_guides", "upgrades"}
ReadFailures == {{}, {"solutions"}, ContentTables}   \* the selects that fail
Queries == {"q1", ""}
Images == {NULL, "img"}
Histories == {<<>>, <<"turn">>}

\* the JSON object in a reply: as the prompt asks, or with a field missing or
\* of another type
ReplyObjects ==
  {[answer |-> <<"X">>, relevantIds |-> ids, answerType |-> "string", idsType |-> "list"] :
     ids \in SUBSET ReplyIds}
  \cup {[answer |-> <<>>, relevantIds |-> {1}, answerType |-> t, idsType |-> "list"] :
          t \in {"undefined", "number"}}
  \cup {[answer |-> <<"X">>, relevantIds |-> {}, answerType |-> "string", idsType |-> t] :
          t \in {"undefined", "number"}}
NoObject == [answer |-> <<>>, relevantIds |-> {}, answerType |-> "none", idsType |-> "none"]

\* the model's replies: an object inside prose, or prose alone
Replies ==
  {[before |-> b, after |-> a, hasObject |-> TRUE, obj |-> o,
    aiContent |-> b \o JsonObject \o a] : b \in Prose, a \in Prose, o \in ReplyObjects}
  \cup {[before |-> b, after |-> a, hasObject |-> FALSE, obj |-> NoObject,
         aiContent |-> b \o a] : b \in Prose, a \in Prose}
NoReply == [before |-> <<>>, after |-> <<>>, hasObject |-> FALSE, obj |-> NoObject,
            aiContent |-> <<>>]

\* the model is called when some fetched list is not empty; it has a reply when
\* it answers 200
Called(rows, readFails) == \E r \in rows : r.tbl \notin readFails

InitSearch ==
  /\ authUsers = {Admin0}
  /\ profiles = {}
  /\ user_roles = {[user_id |-> Admin0, role |-> "admin"]}
  /\ login_codes = {}
  /\ content \in {{}, KnowledgeBase}
  /\ password = [u \in Identities |-> "initial"]
  /\ reqs = [r \in Requests |-> Idle]
  /\ seq = [rows |-> Cardinality(content), codes |-> 0, profiles |-> 0, convs |-> 0, msgs |-> 0]
  /\ last = NoOp
  /\ listing = [s \in Panels |-> {}]
  /\ ai_conversations = {}
  /\ ai_messages = {}
  /\ panel = NoPanel
  /\ \E query \in Queries, image \in Images, history \in Histories,
        fails \in ReadFailures, g \in GatewayStatuses :
       \E reply \in IF Called(content, fails) /\ g = 200 THEN Replies ELSE {NoReply} :
         search = [pc |-> "asked", query |-> query, imageBase64 |-> image,
                   conversationHistory |-> history, readFails |-> fails, gateway |-> g,
                   before |-> reply.before, after |-> reply.after,
                   hasObject |-> reply.hasObject, aiContent |-> reply.aiContent,
                   obj |-> reply.obj, calls |-> 0,
                   response |-> SearchError(0, NULL)]

NextSearch == ai_search

SpecSearch == InitSearch /\ [][NextSearch]_vars

\* ------------------------------------------------- claims on Spec (C2..C7)
HoldsAdmin(u) == [user_id |-> u, role |-> "admin"] \in user_roles
Approved(u) == \E p \in profiles : p.user_id = u /\ p.status = "approved"
NotWriter(u) == StatusOf(u) \in {"pending", "rejected"} /\ ~HoldsAdmin(u)
AddOps == {"handleAddSolution", "handleAddGuide", "handleAddUpgrade"}
RowNow(id) == {r \in content : r.id = id}
Inserted == RowNow(last.row.id) = {last.row}
Updated == \E r \in RowNow(last.row.id) : r.title = last.arg
Deleted == RowNow(last.row.id) = {}
Untouched == last.row \in content
OwnerOrAdmin ==
  (last.row.user_id # NULL /\ last.row.user_id = last.uid) \/ HoldsAdmin(last.uid)

\* C2: on each of the three content tables an insert by identity I adds the row
\* if and only if I has an approved profile or holds the admin role; otherwise
\* (anonymous, pending, rejected, no profile; not admin) no row is added.
C2_InsertIffApprovedOrAdmin ==
  last.op \in AddOps =>
    /\ Inserted <=> (Approved(last.uid) \/ HoldsAdmin(last.uid))
    /\ ~Inserted => (RowNow(last.row.id) = {} /\ seq.rows = last.row.id - 1)

C2_Witness ==
  /\ last.op = "handleAddUpgrade" /\ Inserted
  /\ Approved(last.uid) /\ ~HoldsAdmin(last.uid)

C4_PendingRejectedReadOnly ==
  /\ (last.op \in AddOps /\ NotWriter(last.uid)) => ~Inserted
  /\ (last.op \in {"handleUpdate", "handleDelete"} /\ NotWriter(last.uid)) => Untouched

\* C6: after every completed registration of identity I the store holds exactly
\* one profile of I, with status pending, and the role row (I, user).
C6_RegistrationCreatesProfileAndRole ==
  (last.op = "handleRegister" /\ last.ok) =>
    /\ Cardinality(ProfileOf(last.uid)) = 1
    /\ StatusOf(last.uid) = "pending"
    /\ [user_id |-> last.uid, role |-> "user"] \in user_roles

\* C7: an insert on solutions by a registered identity E is denied while E is
\* pending; once an admin has approved E the insert succeeds and the owner of
\* the new row is E.
C7_ApprovedInsertOwnedByE ==
  /\ (last.op = "handleAddSolution" /\ StatusOf(last.uid) = "pending" /\ ~HoldsAdmin(last.uid))
       => ~Inserted
  /\ (last.op = "handleAddSolution" /\ StatusOf(last.uid) = "approved" /\ ~HoldsAdmin(last.uid))
       => (Inserted /\ \A r \in RowNow(last.row.id) : r.user_id = last.uid)


\* ------------------------------------------- claims on SpecIdentity (C5)
\* C5: every profile row is created with status pending, and no statement a
\* non-admin identity can send creates a profile with, or changes a profile to,
\* another status: approved is only ever set by an admin.
C5_OnlyAdminSetsStatus ==
  /\ (last.op = "handleRegister" /\ last.ok) => StatusOf(last.uid) = "pending"
  /\ (last.op = "InsertProfile" /\ last.ok) => last.row.status = "pending"
  /\ (last.op = "UpdateProfile" /\ last.ok) => HoldsAdmin(last.uid)

\* ------------------------------- claims on SpecReset / SpecRace (C1, C8..C10)
Done(r) == reqs[r].pc = "done"
Succeeded(r) == Done(r) /\ reqs[r].status = 200
SameBody(r1, r2) == reqs[r1].email = reqs[r2].email /\ reqs[r1].code = reqs[r2].code

\* C1: of two reset requests with the same email and the same valid unused code,
\* under every interleaving of their store reads and writes, exactly one returns
\* success and the other fails with the invalid-code error: the two requests
\* never both return success for the one code row.
C1_OneResetPerCode ==
  \A r1, r2 \in Requests :
    (r1 # r2 /\ SameBody(r1, r2) /\ reqs[r1].codeId = reqs[r2].codeId)
      => ~(Succeeded(r1) /\ Succeeded(r2))

\* C8: every reset code stored for identity U was created by a successful
\* login of U; no other statement a client can send stores a code for U.
C8_CodesOnlyFromLogin ==
  \A c \in login_codes :
    (last.op \in {"handleLogin", "InsertLoginCode"} /\ last.row.id = c.id)
      => (last.op = "handleLogin" /\ last.ok /\ last.uid = c.user_id)

\* C9: whenever a reset request returns success for a code, that code's used
\* flag is true afterwards (so a later request presenting it fails with the
\* invalid-code error), and a used flag never goes back to false.
C9_SuccessMarksCodeUsed ==
  \A r \in Requests :
    Succeeded(r) => \A c \in login_codes : c.id = reqs[r].codeId => c.used

\* C10: a reset request whose code is already used, or belongs to another
\* identity than the one resolved from the email, or differs from the stored
\* value, is answered 400 with the invalid-code error; the stored credential and
\* every code's used flag stay as they were, and the request writes nothing later.
NoUsableCode(q) ==
  \A c \in login_codes : c.used \/ c.user_id # q.user \/ c.code # q.code

C10_InvalidCodeRejected ==
  [][\A r \in Requests :
       /\ (reqs[r].pc = "code" /\ reqs'[r] # reqs[r] /\ NoUsableCode(reqs[r]))
            => /\ reqs'[r] = Respond(reqs[r], 400, MsgInvalid)
               /\ password' = password
               /\ login_codes' = login_codes
       /\ (reqs[r].pc = "done" /\ reqs[r].msg = MsgInvalid)
            => reqs'[r] = reqs[r]]_vars

C10_Witness ==
  \E r \in Requests :
    /\ Done(r) /\ reqs[r].status = 400 /\ reqs[r].msg = MsgInvalid
    /\ \E c \in login_codes : c.used /\ c.user_id = reqs[r].user /\ c.code = reqs[r].code

\* C11: a failing reset request gets exactly one outcome, decided in this
\* order: 400 when a field is missing or the password is shorter than 6, before
\* any store access; 404 when no profile matches the email; 400 when no unused
\* matching code exists; 500 when the credential update errors, and then the
\* code stays unused. A request that has its response takes no further step.
Invalid(q) == q.email = "" \/ q.code = "" \/ q.pw = "" \/ Len(q.pw) < 6

C11_FailureOrder ==
  [][\A r \in Requests :
       LET q == reqs[r]
           q2 == reqs'[r]
       IN
       /\ (q.pc = "idle" /\ q2 # q /\ Invalid(q2))
            => /\ q2.pc = "done" /\ q2.status = 400 /\ q2.msg \in {MsgRequired, MsgShort}
               /\ q2.user = NULL /\ q2.codeId = 0
       /\ (q.pc = "idle" /\ q2 # q /\ ~Invalid(q2)) => q2.pc = "profile"
       /\ (q.pc = "profile" /\ q2 # q /\ ~\E p \in profiles : p.email = q.email)
            => q2 = Respond(q, 404, MsgNotFound)
       /\ (q.pc = "code" /\ q2 # q /\ NoUsableCode(q))
            => q2 = Respond(q, 400, MsgInvalid)
       /\ (q.pc = "update" /\ q2 # q)
            => \/ q2 = [q EXCEPT !.pc = "mark"] /\ password'[q.user] = q.pw
               \/ /\ q2 = Respond(q, 500, MsgFailed)
                  /\ password' = password /\ login_codes' = login_codes
       /\ (q2 # q /\ q2.pc = "done" /\ q2.status # 200)
            => password' = password /\ login_codes' = login_codes
       /\ q.pc = "done" => q2 = q]_vars

C11_Witness ==
  \E r \in Requests :
    /\ Done(r) /\ reqs[r].status = 500 /\ reqs[r].msg = MsgFailed
    /\ \E c \in login_codes : c.id = reqs[r].codeId /\ ~c.used

\* C12: the response to a request whose email matches no profile and the
\* response to a request with a known email and a wrong code differ only in the
\* message text: the status code is the same.
AnsweredAtProfile(r) == Done(r) /\ ~Invalid(reqs[r]) /\ reqs[r].user = NULL
AnsweredAtCode(r) == Done(r) /\ reqs[r].user # NULL /\ reqs[r].codeId = 0

C12_SameResponseShape ==
  \A r1, r2 \in Requests :
    (AnsweredAtProfile(r1) /\ AnsweredAtCode(r2)) => reqs[r1].status = reqs[r2].status

\* ------------------------------------------ claims on SpecAdmin (C13..C15)
\* C13: a profile's status only moves from pending to approved or from pending
\* to rejected: once approved or rejected, no admin-page operation (approve,
\* reject, delete), from any admin session, a stale listing included, changes
\* it to a different status.
C13_StatusTerminal ==
  [][\A p \in profiles, p2 \in profiles' :
       (p.id = p2.id /\ p.status # "pending") => p2.status = p.status]_vars

\* C14: rejecting a pending registration flips that profile's status to
\* rejected and keeps the row in the store; afterwards the profile is in neither
\* the pending nor the approved list of the admin page.
RejectOps == {"handleRejectUser", "handleRejectUser_byId"}
C14_RejectKeepsRow ==
  (last.op \in RejectOps /\ last.row.status = "pending") =>
    /\ \E p \in profiles : p.id = last.row.id /\ p.status = "rejected"
    /\ \A u \in pendingUsers(listing[last.arg]) \cup approvedUsers(listing[last.arg]) :
         u.id # last.row.id

\* C15: when an admin deletes a user from the admin page, the user's profile row
\* is removed and the removal cascades: afterwards no role row, no conversation
\* and no message of a conversation of that user is in the store.
C15_DeleteCascades ==
  (last.op = "handleDeleteUser" /\ last.row.status # "none") =>
    /\ ProfileOf(last.row.user_id) = {}
    /\ \A r \in user_roles : r.user_id # last.row.user_id
    /\ \A c \in ai_conversations : c.user_id # last.row.user_id
    /\ \A m \in ai_messages : ConvOf(m.conversation_id).user_id # last.row.user_id

\* ------------------------------------------- claims on SpecConv (C16, C17)
\* C16: an identity reads, creates, updates or deletes a conversation only if
\* it is the conversation's owner, and reads or inserts a message only if it
\* owns the conversation the message refers to; admins are no exception.
ConvOps == {"ReadConversation", "InsertConversation", "UpdateConversation", "deleteConversation"}
MsgOps == {"ReadMessage", "InsertMessage"}
C16_OwnerScoped ==
  /\ (last.op \in ConvOps /\ last.ok) => last.row.user_id = last.uid
  /\ (last.op \in MsgOps /\ last.ok) => ConvOf(last.row.conversation_id).user_id = last.uid

C16_Witness ==
  /\ last.op = "ReadMessage" /\ last.ok
  /\ ConvOf(last.row.conversation_id).user_id = last.uid /\ ~HoldsAdmin(last.uid)

\* C17: once written, a message's conversation, role, content and referenced
\* items never change, and a conversation changes only in its title and
\* updated_at, never in its owner or created_at; a message leaves the store only
\* when its conversation is deleted.
C17_MessagesImmutable ==
  [][/\ \A m \in ai_messages, m2 \in ai_messages' : m.id = m2.id => m2 = m
     /\ \A c \in ai_conversations, c2 \in ai_conversations' :
          c.id = c2.id => (c2.user_id = c.user_id /\ c2.created_at = c.created_at)
     /\ \A m \in ai_messages :
          (\A m2 \in ai_messages' : m2.id # m.id)
            => /\ \E c \in ai_conversations : c.id = m.conversation_id
               /\ \A c2 \in ai_conversations' : c2.id # m.conversation_id]_vars

\* --------------------------------------------------- claims on SpecRead (C18)
\* C18: a read of any content row succeeds for every caller, whatever its
\* identity, role or approval state: anonymous, pending, rejected, approved or
\* admin.
C18_ReadAlwaysSucceeds ==
  last.op = "ReadContent" => (last.ok /\ last.row \in content)

C18_Witness ==
  /\ last.op = "ReadContent" /\ last.ok
  /\ last.uid = NULL /\ last.row.tbl = "solutions"

\* ------------------------------------------ claims on SpecSearch (C19, C20)
Answered == search.pc = "done" /\ search.gateway = 200 /\ search.calls = 1
AsPrompted ==
  search.hasObject /\ search.obj.answerType = "string" /\ search.obj.idsType = "list"

\* C19: for a reply that holds one JSON object with answer = X and relevantIds,
\* embedded in arbitrary surrounding prose, the endpoint extracts that object
\* and returns answer = X.
C19_AnswerExtracted ==
  (Answered /\ AsPrompted) => search.response.answer = search.obj.answer

\* C20: the relevantSolutions returned are exactly the fetched content rows,
\* of any of the three content tables, whose id is an element of the reply's
\* relevantIds; an id that matches no fetched row is dropped without error.
C20_RelevantRowsOfAllTables ==
  (Answered /\ AsPrompted /\ search.readFails = {}
     /\ search.response.answer = search.obj.answer) =>
    /\ search.response.status = 200
    /\ search.response.relevantSolutions = {r \in content : r.id \in search.obj.relevantIds}

\* ------------------------------------------ SpecPanel: the AI panel, by steps
\* handleSubmit is an async function: between two awaits the page handles other
\* events. Each action below runs the handler from one await to the next.
MaxTurns == 2                       \* queries the panel submits

\* a displayed message and a stored one carry the number of the query they
\* belong to as their content
Shown(role, turn) == [role |-> role, content |-> turn]

\* `user && isApproved` (useAuth): the panel persists for these only
signedIn(p) == p.user # NULL
signedInApproved(p) == p.user # NULL /\ p.isApproved

\* where the handler goes after an awaited write outside the try block: the
\* result's error is not read and supabase-js does not reject, so it goes on
AfterWrite_rejects(fails, next) == IF fails THEN "idle" ELSE next
AfterWrite(fails, next) == next

\* the rows of a conversation the caller may select, ordered by creation
RECURSIVE Ordered(_)
Ordered(rows) ==
  IF rows = {} THEN <<>>
  ELSE LET m == CHOOSE x \in rows : \A y \in rows : x.id <= y.id
       IN <<m>> \o Ordered(rows \ {m})
SelectMessages(uid, conversationId) ==
  Ordered({m \in ai_messages : /\ m.conversation_id = conversationId
                               /\ ai_messages_select_using(uid, m, ai_conversations)})

\* data.map(m => ({role: m.role, content: m.content, ...})): rows as displayed
AsShown(sq) == [i \in 1..Len(sq) |-> Shown(sq[i].role, sq[i].content)]

PanelRest == <<authUsers, profiles, user_roles, login_codes, content, password, reqs,
               listing, search>>

\* handleSubmit up to its first await: show the user message, set isLoading
handleSubmit_begin ==
  LET p == panel
      t == p.turn + 1
      saving == signedInApproved(p)
  IN
  /\ p.pc = "idle" /\ ~p.isLoading
  /\ p.turn < MaxTurns
  /\ panel' = [p EXCEPT !.messages = Append(@, Shown("user", t)),
                        !.isLoading = TRUE, !.turn = t,
                        !.conversationId = p.currentConversationId,
                        !.failed = {}, !.answered = "none",
                        !.pc = IF saving /\ p.currentConversationId = 0 THEN "create"
                               ELSE IF saving THEN "saveUser" ELSE "invoke"]
  /\ last' = Did("handleSubmit_begin", p.user, TRUE, NoRow, t)
  /\ UNCHANGED <<PanelRest, aiTables, seq>>

\* insert into ai_conversations ... select().single(): only data is read
handleSubmit_createConversation(fails) ==
  LET p == panel
      conv == [id |-> seq.convs + 1, user_id |-> p.user, title |-> "t1",
               created_at |-> "d1", updated_at |-> "d1"]
      convs1 == IF fails THEN ai_conversations
                ELSE InsertConversationRow(p.user, conv, ai_conversations)
      data == convs1 # ai_conversations
      conversationId == IF data THEN conv.id ELSE 0
      next == AfterWrite(~data, IF conversationId # 0 THEN "saveUser" ELSE "invoke")
  IN
  /\ p.pc = "create"
  /\ ai_conversations' = convs1
  /\ seq' = [seq EXCEPT !.convs = IF data THEN @ + 1 ELSE @]
  /\ panel' = [p EXCEPT !.conversationId = conversationId,
                        !.currentConversationId = IF data THEN conv.id ELSE @,
                        !.failed = IF data THEN @ ELSE @ \cup {"conversation"},
                        !.lost = @ \/ ~data,
                        !.pc = next]
  /\ last' = Did("handleSubmit_createConversation", p.user, data, NoRow, p.turn)
  /\ UNCHANGED <<PanelRest, ai_messages>>

\* insert the user message into ai_messages; the result is not read
handleSubmit_saveUserMessage(fails) ==
  LET p == panel
      row == [id |-> seq.msgs + 1, conversation_id |-> p.conversationId, role |-> "user",
              content |-> p.turn, relevant_solutions |-> NULL]
      msgs1 == IF fails THEN ai_messages
               ELSE InsertMessageRow(p.user, row, ai_conversations, ai_messages)
      stored == msgs1 # ai_messages
  IN
  /\ p.pc = "saveUser"
  /\ ai_messages' = msgs1
  /\ seq' = [seq EXCEPT !.msgs = IF stored THEN @ + 1 ELSE @]
  /\ panel' = [p EXCEPT !.failed = IF stored THEN @ ELSE @ \cup {"user"},
                        !.lost = @ \/ ~stored,
                        !.pc = AfterWrite(~stored, "invoke")]
  /\ last' = Did("handleSubmit_saveUserMessage", p.user, stored, NoRow, p.turn)
  /\ UNCHANGED <<PanelRest, ai_conversations>>

\* functions.invoke('ai-search'): on an error, catch and finally; on an answer,
\* show it and go on to save it, or finish when nothing is saved
handleSubmit_invoke(ok) ==
  LET p == panel
      storing == ok /\ signedInApproved(p) /\ p.conversationId # 0
  IN
  /\ p.pc = "invoke"
  /\ panel' = [p EXCEPT !.messages = IF ok THEN Append(@, Shown("assistant", p.turn)) ELSE @,
                        !.answered = IF ok THEN "ok" ELSE "error",
                        !.isLoading = storing,
                        !.pc = IF storing THEN "saveAssistant" ELSE "idle"]
  /\ last' = Did("handleSubmit_invoke", p.user, ok, NoRow, p.turn)
  /\ UNCHANGED <<PanelRest, aiTables, seq>>

\* insert the assistant message into ai_messages; the result is not read
handleSubmit_saveAssistantMessage(fails) ==
  LET p == panel
      row == [id |-> seq.msgs + 1, conversation_id |-> p.conversationId, role |-> "assistant",
              content |-> p.turn, relevant_solutions |-> "refs"]
      msgs1 == IF fails THEN ai_messages
               ELSE InsertMessageRow(p.user, row, ai_conversations, ai_messages)
      stored == msgs1 # ai_messages
  IN
  /\ p.pc = "saveAssistant"
  /\ ai_messages' = msgs1
  /\ seq' = [seq EXCEPT !.msgs = IF stored THEN @ + 1 ELSE @]
  /\ panel' = [p EXCEPT !.failed = IF stored THEN @ ELSE @ \cup {"assistant"},
                        !.lost = @ \/ ~stored,
                        !.pc = "touch"]
  /\ last' = Did("handleSubmit_saveAssistantMessage", p.user, stored, NoRow, p.turn)
  /\ UNCHANGED <<PanelRest, ai_conversations>>

\* update ai_conversations set updated_at = now(), then finally
handleSubmit_updateTimestamp(fails) ==
  LET p == panel
      convs1 == IF fails THEN ai_conversations
                ELSE UpdateConversationRows(p.user, p.conversationId, "updated_at", "d2",
                                            ai_conversations)
  IN
  /\ p.pc = "touch"
  /\ ai_conversations' = convs1
  /\ panel' = [p EXCEPT !.isLoading = FALSE, !.pc = "idle"]
  /\ last' = Did("handleSubmit_updateTimestamp", p.user, ~fails, NoRow, p.turn)
  /\ UNCHANGED <<PanelRest, ai_messages, seq>>

\* loadConversation: a click on an entry of the history list, which the panel
\* renders for `user && isApproved`; the buttons stay enabled while loading
loadConversation(conversationId) ==
  LET p == panel IN
  /\ p.pc # "none" /\ signedInApproved(p)
  /\ \E c \in ai_conversations :
       c.id = conversationId /\ ai_conversations_select_using(p.user, c)
  /\ panel' = [p EXCEPT !.messages = AsShown(SelectMessages(p.user, conversationId)),
                        !.currentConversationId = conversationId]
  /\ last' = Did("loadConversation", p.user, TRUE, NoRow, conversationId)
  /\ UNCHANGED <<PanelRest, aiTables, seq>>

\* handleNewConversation: the New Chat button
handleNewConversation ==
  LET p == panel IN
  /\ p.pc # "none"
  /\ p.messages # <<>> \/ p.currentConversationId # 0
  /\ panel' = [p EXCEPT !.messages = <<>>, !.currentConversationId = 0]
  /\ last' = Did("handleNewConversation", p.user, TRUE, NoRow, NULL)
  /\ UNCHANGED <<PanelRest, aiTables, seq>>

\* the panel as it mounts, for a visitor or for u1 in each profile status
PanelUsers == {NULL, "u1"}
\* isApproved as useAuth gives it: the signed-in user's profile is approved
useAuth_isApproved(u) == u # NULL /\ is_approved(u)
InitPanel ==
  /\ listing = [s \in Panels |-> {}]
  /\ ai_conversations = {}
  /\ ai_messages = {}
  /\ search = NoSearch
  /\ authUsers = Identities
  /\ \E st \in Statuses :
       profiles = {[id |-> 1, user_id |-> "u1", email |-> EmailOf("u1"), status |-> st]}
  /\ user_roles = {[user_id |-> Admin0, role |-> "admin"]}
  /\ login_codes = {}
  /\ content = {}
  /\ password = [u \in Identities |-> "initial"]
  /\ reqs = [r \in Requests |-> Idle]
  /\ seq = [rows |-> 0, codes |-> 0, profiles |-> 1, convs |-> 0, msgs |-> 0]
  /\ last = NoOp
  /\ \E u \in PanelUsers :
       panel = [pc |-> "idle", user |-> u, isApproved |-> useAuth_isApproved(u),
                messages |-> <<>>, currentConversationId |-> 0, isLoading |-> FALSE,
                conversationId |-> 0, turn |-> 0, failed |-> {}, lost |-> FALSE,
                answered |-> "none"]

NextPanel ==
  \/ handleSubmit_begin
  \/ \E fails \in BOOLEAN : handleSubmit_createConversation(fails)
  \/ \E fails \in BOOLEAN : handleSubmit_saveUserMessage(fails)
  \/ \E ok \in BOOLEAN : handleSubmit_invoke(ok)
  \/ \E fails \in BOOLEAN : handleSubmit_saveAssistantMessage(fails)
  \/ \E fails \in BOOLEAN : handleSubmit_updateTimestamp(fails)
  \/ \E id \in 1..MaxTurns : loadConversation(id)
  \/ handleNewConversation

SpecPanel == InitPanel /\ [][NextPanel]_vars

\* ------------------------------------------ SpecPages: what the pages offer
\* isAdmin as useAuth gives it: the signed-in user holds the admin role
useAuth_isAdmin(u) == u # NULL /\ has_role(u, "admin")

\* InstallationGuides page
canModifyGuide(user, isAdmin, guide) ==
  IF user = NULL THEN FALSE
  ELSE IF isAdmin THEN TRUE
  ELSE guide.user_id = user
canAddGuide(user, isApproved, isAdmin) == user # NULL /\ (isApproved \/ isAdmin)

\* Upgrades page
canModifyUpgrade(user, isAdmin, upgrade) ==
  IF user = NULL THEN FALSE
  ELSE IF isAdmin THEN TRUE
  ELSE upgrade.user_id = user
canAddUpgrade(user, isApproved, isAdmin) == user # NULL /\ (isApproved \/ isAdmin)

\* Index page: the New Solution button is rendered without a condition, and
\* every SolutionCard is given onEdit and onDelete
Index_newSolution(user) == TRUE
Index_onEdit(user, solution) == TRUE
Index_onDelete(user, solution) == TRUE

\* the controls a page offers: the add control, and on the card of a row the
\* edit and the delete control
Controls(add, edit, delete) == [add |-> add, edit |-> edit, delete |-> delete]
Offered(user, row) ==
  LET isAdmin == useAuth_isAdmin(user)
      isApproved == useAuth_isApproved(user)
  IN CASE row.tbl = "solutions" ->
            Controls(Index_newSolution(user), Index_onEdit(user, row), Index_onDelete(user, row))
       [] row.tbl = "installation_guides" ->
            Controls(canAddGuide(user, isApproved, isAdmin),
                     canModifyGuide(user, isAdmin, row), canModifyGuide(user, isAdmin, row))
       [] row.tbl = "upgrades" ->
            Controls(canAddUpgrade(user, isApproved, isAdmin),
                     canModifyUpgrade(user, isAdmin, row), canModifyUpgrade(user, isAdmin, row))

\* a page rendered for the session's user, with the card of one of its rows
RenderPage(user, id) ==
  LET row == CHOOSE r \in content : r.id = id IN
  /\ \E r \in content : r.id = id
  /\ last' = Did("RenderPage", user, TRUE, row, Offered(user, row))
  /\ last' # last
  /\ UNCHANGED <<listing, aiTables, search, panel, authUsers, profiles, user_roles, login_codes,
                 content, password, reqs, seq>>

NextPages ==
  \/ \E u \in Identities : handleRegister(u, u)
  \/ \E p \in profiles : handleApproveUser(Admin0, p.user_id)
  \/ \E p \in profiles : handleRejectUser_byId(Admin0, p.id)
  \/ \E uid \in Sessions : handleAddSolution(uid, "t1")
  \/ \E uid \in Sessions : handleAddGuide(uid, "t1")
  \/ \E uid \in Sessions : handleAddUpgrade(uid, "t1")
  \/ \E uid \in Sessions, r \in content : RenderPage(uid, r.id)

SpecPages == Init /\ [][NextPages]_vars

\* C21: for a reply from which no JSON object can be parsed, the endpoint
\* responds successfully with the raw reply text as the answer and an empty
\* relevantSolutions list; no error is returned.
Unparseable(text) ==
  \A i, j \in 1..Len(text) : SubSeq(text, i, j) \notin {JsonObject, <<"{", "}">>}

C21_RawReplyFallback ==
  (Answered /\ Unparseable(search.aiContent)) =>
    /\ search.response.status = 200 /\ search.response.error = NULL
    /\ search.response.answer = search.aiContent /\ search.response.answerType = "string"
    /\ search.response.relevantSolutions = {}

C21_Witness ==
  /\ Answered /\ Unparseable(search.aiContent) /\ match(search.aiContent) # <<>>
  /\ search.response.answer = search.aiContent

\* C22: for every 2xx model response, whatever the reply text is (parseable
\* JSON with answer or relevantIds missing or of another type included), the
\* endpoint returns a success response whose answer is a string and whose
\* relevantSolutions is a list; the reply's shape never causes an error.
C22_ReplyShapeNeverFails ==
  Answered =>
    /\ search.response.status = 200 /\ search.response.error = NULL
    /\ search.response.answerType = "string"

\* C23: a model response that is not 2xx maps to one outcome: 429 to the
\* rate-limit error with status 429, 402 to the credits error with status 402,
\* any other to a generic failure with status 500; a request makes at most one
\* model call, and none when there is no content.
C23_GatewayErrorsMapped ==
  search.pc = "done" =>
    /\ search.calls <= 1
    /\ content = {} => search.calls = 0
    /\ (search.calls = 1 /\ search.gateway = 429)
         => (search.response.status = 429 /\ search.response.error = "Rate limit exceeded. Please try again later.")
    /\ (search.calls = 1 /\ search.gateway = 402)
         => (search.response.status = 402 /\ search.response.error = "AI credits exhausted. Please add more credits.")
    /\ (search.calls = 1 /\ search.gateway \notin {200, 429, 402})
         => (search.response.status = 500 /\ search.response.error = "AI gateway error")

C23_Witness ==
  /\ search.pc = "done" /\ search.calls = 1 /\ search.gateway = 402
  /\ search.response.status = 402

\* C24: if reading a content table fails during a query, the endpoint reports
\* an error to the caller; it never answers as if the failed table were empty,
\* and does not return the "no content yet" message when the reads failed.
C24_ReadFailureReported ==
  (search.pc = "done" /\ search.readFails # {}) =>
    /\ search.response.status # 200 /\ search.response.error # NULL
    /\ search.response.answer # MsgNoContent

\* C25: when all three content tables are empty the endpoint returns the fixed
\* "no content yet" message as the answer and an empty relevantSolutions list,
\* for every query text, image and conversation history.
NoContentYet ==
  <<"No content has been added to the knowledge base yet. Add some solutions, installation guides, or upgrades first to enable AI-powered search.">>

C25_EmptyKnowledgeBase ==
  (search.pc = "done" /\ content = {}) =>
    /\ search.response.status = 200 /\ search.response.error = NULL
    /\ search.response.answer = NoContentYet
    /\ search.response.relevantSolutions = {}

C25_Witness ==
  /\ search.pc = "done" /\ content = {} /\ search.response.answer = NoContentYet
  /\ search.query = "" /\ search.imageBase64 = "img" /\ search.conversationHistory # <<>>

\* C26: an AI query by an anonymous or a non-approved identity writes no
\* conversation row and no message row; rows are written only for an identity
\* that is authenticated and approved.
C26_PersistOnlyForApproved ==
  /\ (panel.user = NULL \/ ~is_approved(panel.user)) =>
       (ai_conversations = {} /\ ai_messages = {})
  /\ \A c \in ai_conversations : c.user_id = panel.user /\ is_approved(c.user_id)

C26_Witness ==
  /\ panel.user = "u1" /\ StatusOf("u1") = "pending"
  /\ panel.pc = "idle" /\ panel.turn = 1 /\ panel.answered = "ok"
  /\ panel.messages = <<Shown("user", 1), Shown("assistant", 1)>>
  /\ ai_conversations = {} /\ ai_messages = {}

\* C27: when creating the conversation, writing the user message or writing
\* the assistant message fails, the answer is still requested and shown: a
\* failed write neither stops the query, nor removes a displayed message, nor
\* leaves the panel loading.
C27_PersistenceNeverBlocks ==
  [][ /\ (/\ last'.op \in {"handleSubmit_createConversation", "handleSubmit_saveUserMessage"}
          /\ ~last'.ok)
        => (panel'.pc = "invoke" /\ panel'.messages = panel.messages)
      /\ (last'.op = "handleSubmit_invoke" /\ last'.ok)
        => (/\ panel'.messages # <<>>
            /\ panel'.messages[Len(panel'.messages)] = Shown("assistant", panel'.turn))
      /\ (/\ last'.op \in {"handleSubmit_saveAssistantMessage", "handleSubmit_updateTimestamp"}
          /\ ~last'.ok)
        => panel'.messages = panel.messages
      /\ panel'.pc = "idle" => ~panel'.isLoading ]_vars

C27_Witness ==
  /\ panel.pc = "idle" /\ ~panel.isLoading /\ panel.answered = "ok"
  /\ "conversation" \in panel.failed
  /\ panel.messages = <<Shown("user", 1), Shown("assistant", 1)>>

\* C28: in every persisted conversation the messages, in creation order,
\* alternate user, assistant, user, assistant, starting with a user message,
\* also after queries whose model call failed.
Alternates(sq) ==
  \A i \in 1..Len(sq) : sq[i].role = IF i % 2 = 1 THEN "user" ELSE "assistant"

C28_RolesAlternate ==
  ~panel.lost =>                    \* even when every write succeeded
    \A c \in ai_conversations :
      Alternates(Ordered({m \in ai_messages : m.conversation_id = c.id}))

\* C30: the messages the panel shows are those of the current conversation:
\* an answer that arrives after the user started a new chat or loaded another
\* conversation is not appended to the list now shown, and what is displayed
\* equals what is persisted for the current conversation.
C30_DisplayedIsCurrent ==
  (panel.pc = "idle" /\ signedInApproved(panel) /\ ~panel.lost) =>
    panel.messages = AsShown(SelectMessages(panel.user, panel.currentConversationId))

\* C29: on every content page the controls agree with the store's policy: the
\* edit and delete controls of a row are offered exactly when the policy lets
\* the identity update and delete that row, and the add control exactly when
\* the policy lets it insert.
C29_ControlsMatchPolicy ==
  last.op = "RenderPage" =>
    /\ last.arg.edit = UpdateUsing(last.uid, last.row)
    /\ last.arg.delete = DeleteUsing(last.uid, last.row)
    /\ last.arg.add = InsertCheck(last.uid, last.row)

====
